---- MODULE Spec2Model ----
(***************************************************************************)
(* Model of app.py: the OpenDota proxy.  An in-memory cache with absolute  *)
(* expiry, two normalizers (live / pro matches) and the two request        *)
(* handlers dota_live and dota_recent, each of which suspends exactly once *)
(* (at the upstream GET).                                                  *)
(*                                                                         *)
(* Three specifications share the module:                                  *)
(*   Spec      the server: clock, cache and concurrent requests;           *)
(*   SpecNorm  normalize_live / normalize_pro applied to bounded inputs;   *)
(*   SpecKey   the upstream URL (= cache key) built from inbound queries.  *)
(***************************************************************************)
EXTENDS Integers, Sequences, FiniteSets, Bags, TLC

VARIABLES
    now,        \* time.time(), in seconds
    cache,      \* _cache: url -> [data, exp]
    reqs,       \* the handler coroutines suspended at their await: a bag of [ep, url]
    lastResp,   \* the response sent by the step just taken (NoResponse if none)
    lastSet,    \* history: per key, the last cache_set (body, time, ttl)
    rows,       \* SpecNorm: the argument of the normalizer
    fn,         \* SpecNorm: which normalizer has run ("none" before)
    items,      \* SpecNorm: what it returned
    query,      \* SpecKey: two inbound queries, sequences of <<name, value>>
    built       \* SpecKey: the two URLs built from them (<<>> before)

serverVars == <<now, cache, reqs, lastResp, lastSet>>
normVars == <<rows, fn, items>>
keyVars == <<query, built>>
vars == <<now, cache, reqs, lastResp, lastSet, rows, fn, items, query, built>>

----------------------------------------------------------------------------
(* Program constants *)

OPENDOTA_LIVE == "https://api.opendota.com/api/live"
OPENDOTA_PRO == "https://api.opendota.com/api/proMatches"
CACHE_SECONDS == 10
PRO_SECONDS == 30
PRO_LIMIT == 20
HTTP_OK == 200
BAD_GATEWAY == 502

(* Bounds of the model *)

MaxRows == 25       \* longest upstream list
MaxTime == 40       \* the clock stops here
TickStep == 10      \* resolution of the clock
NumReqs == 2        \* requests in flight at once

----------------------------------------------------------------------------
(* JSON / Python values.  A scalar is a record [t, n, s]; Absent marks a   *)
(* key that the dict does not hold.                                        *)

JNull == [t |-> "null", n |-> 0, s |-> ""]
JInt(i) == [t |-> "int", n |-> i, s |-> ""]
JStr(x) == [t |-> "str", n |-> 0, s |-> x]
Absent == [t |-> "absent", n |-> 0, s |-> ""]

\* Python's None as returned by cache_get (never equal to a payload).
None == [t |-> "None"]

\* bool(v) for a scalar: None, 0 and "" are falsy.
Truthy(v) ==
    CASE v.t = "null" -> FALSE
      [] v.t = "int" -> v.n /= 0
      [] v.t = "str" -> v.s /= ""
      [] OTHER -> FALSE

\* m.get(k, d)
Get(m, k, d) == IF m[k] = Absent THEN d ELSE m[k]

\* m.get(k) or d
GetOr(m, k, d) == IF Truthy(Get(m, k, JNull)) THEN m[k] ELSE d

\* str(v), as an f-string formats it
PyStr(v) ==
    CASE v.t = "null" -> "None"
      [] v.t = "int" -> ToString(v.n)
      [] v.t = "str" -> v.s
      [] OTHER -> "None"

Max(a, b) == IF a >= b THEN a ELSE b
Min(a, b) == IF a <= b THEN a ELSE b

Fields ==
    {"match_id", "league_name", "team_name_radiant", "team_name_dire",
     "radiant_name", "dire_name", "radiant_score", "dire_score", "game_time"}

\* The dict with no key.
EmptyRow == [f \in Fields |-> Absent]

\* A parsed JSON body: an array of match dicts, or something else. size is
\* what len() gives for the kinds that have a length.
JArray(rs) == [kind |-> "array", rows |-> rs, size |-> Len(rs)]
JObject(k) == [kind |-> "object", rows |-> <<>>, size |-> k]
JString(k) == [kind |-> "string", rows |-> <<>>, size |-> k]
JNumber == [kind |-> "number", rows |-> <<>>, size |-> 0]
JBool == [kind |-> "bool", rows |-> <<>>, size |-> 0]
JNullBody == [kind |-> "null", rows |-> <<>>, size |-> 0]

\* isinstance(rows, list)
IsList(body) == body.kind = "array"

\* len(rows) raises TypeError unless rows is a list, a dict or a str.
HasLen(body) == body.kind \in {"array", "object", "string"}
PyLen(body) == body.size

----------------------------------------------------------------------------
(* normalize_live and normalize_pro *)

\* The separator typed in the status f-string, as the source file holds it:
\* the three characters U+00E2 U+20AC U+00A2.
LIVE_SEP == "<U+00E2><U+20AC><U+00A2>"

Score(m) ==
    PyStr(Get(m, "radiant_score", JInt(0))) \o " - "
        \o PyStr(Get(m, "dire_score", JInt(0)))

LiveStatus(m) ==
    LET game_time == Get(m, "game_time", JInt(0))
    IN  IF Truthy(game_time)
        THEN "Live " \o LIVE_SEP \o " "
                 \o ToString(Max(game_time.n, 0) \div 60) \o "m"
        ELSE "Live"

LiveItem(m) ==
    [id |-> Get(m, "match_id", JNull),
     game |-> "Dota 2",
     league |-> GetOr(m, "league_name", JStr("")),
     series |-> "",
     team1 |-> GetOr(m, "team_name_radiant", JStr("Radiant")),
     team2 |-> GetOr(m, "team_name_dire", JStr("Dire")),
     status |-> LiveStatus(m),
     score |-> Score(m),
     begin_at |-> JNull,
     raw |-> m]

ProItem(m) ==
    [id |-> Get(m, "match_id", JNull),
     game |-> "Dota 2",
     league |-> GetOr(m, "league_name", JStr("")),
     series |-> "",
     team1 |-> GetOr(m, "radiant_name", JStr("Radiant")),
     team2 |-> GetOr(m, "dire_name", JStr("Dire")),
     status |-> "Finished",
     score |-> Score(m),
     begin_at |-> JNull,
     raw |-> m]

normalize_live(body) ==
    IF IsList(body)
    THEN [i \in 1..Len(body.rows) |-> LiveItem(body.rows[i])]
    ELSE <<>>

\* Variant of ProSlice: the slice forgotten.
ProSliceAll(rs) == rs

\* rows[:20]
ProSlice(rs) == SubSeq(rs, 1, Min(Len(rs), PRO_LIMIT))

normalize_pro(body) ==
    IF IsList(body)
    THEN LET head == ProSlice(body.rows)
         IN  [i \in 1..Len(head) |-> ProItem(head[i])]
    ELSE <<>>

----------------------------------------------------------------------------
(* The upstream URL of dota_live, which is also its cache key.  A name or  *)
(* a value is a sequence of one-character strings.                         *)

\* quote_plus on one character: letters and digits are kept, a space gives
\* "+", any other character is percent-encoded.
QuoteChar(c) ==
    CASE c = " " -> "+"
      [] c = "&" -> "%26"
      [] c = "=" -> "%3D"
      [] OTHER -> c

RECURSIVE QuotePlus(_)
QuotePlus(cs) ==
    IF cs = <<>> THEN "" ELSE QuoteChar(Head(cs)) \o QuotePlus(Tail(cs))

\* dict(request.query_params): one entry per name, at the place of the
\* name's first occurrence, holding the value of its last occurrence.
LastValue(q, name) ==
    LET idx == {i \in 1..Len(q) : q[i][1] = name}
    IN  q[CHOOSE i \in idx : \A j \in idx : j <= i][2]

RECURSIVE DictItems(_, _)
DictItems(q, i) ==
    IF i > Len(q) THEN <<>>
    ELSE IF \E j \in 1..(i - 1) : q[j][1] = q[i][1]
         THEN DictItems(q, i + 1)
         ELSE <<(<<q[i][1], LastValue(q, q[i][1])>>)>> \o DictItems(q, i + 1)

ToDict(q) == DictItems(q, 1)

\* urlencode(params, doseq=True) of items whose values are strings
RECURSIVE UrlEncode(_)
UrlEncode(kvs) ==
    IF kvs = <<>> THEN ""
    ELSE QuotePlus(kvs[1][1]) \o "=" \o QuotePlus(kvs[1][2])
             \o (IF Len(kvs) > 1 THEN "&" ELSE "") \o UrlEncode(Tail(kvs))

LiveUrl(q) ==
    LET params == ToDict(q)
        qs == UrlEncode(params)
    IN  OPENDOTA_LIVE \o (IF qs /= "" THEN "?" \o qs ELSE "")

----------------------------------------------------------------------------
(* The cache *)

cache_get(k) ==
    IF k \notin DOMAIN cache THEN None
    ELSE IF cache[k].exp < now THEN None
    ELSE cache[k].data

\* Variant of cache_set: an entry that has not expired is kept (first write
\* wins).
cache_set_keep(k, data, ttl) ==
    IF k \in DOMAIN cache /\ cache[k].exp >= now THEN cache
    ELSE [x \in DOMAIN cache \cup {k} |->
            IF x = k THEN [data |-> data, exp |-> now + ttl] ELSE cache[x]]

cache_set(k, data, ttl) ==
    [x \in DOMAIN cache \cup {k} |->
        IF x = k THEN [data |-> data, exp |-> now + ttl] ELSE cache[x]]

\* Variant of IsHit: a payload without items counts as a miss.
IsHitNonEmpty(cached) == cached /= None /\ cached.items /= <<>>

\* `if cached:` -- cache_get gave a dict, and the dict holds a key
IsHit(cached) == cached /= None /\ DOMAIN cached /= {}

----------------------------------------------------------------------------
(* The handlers.  A handler runs without interruption up to its single     *)
(* await (the upstream GET) and again from there to its return.            *)

Awaiting(ep, url) == [ep |-> ep, url |-> url]

\* Variant of ErrorDetail: the gateway's own status in place of upstream's.
ErrorDetailOwnStatus(code) == "OpenDota upstream error " \o ToString(BAD_GATEWAY)

\* f"OpenDota upstream error {r.status_code}"
ErrorDetail(code) == "OpenDota upstream error " \o ToString(code)

\* What the client receives. The first four fields are history, not part of
\* the HTTP response: the endpoint and key of the request, the status that
\* upstream answered with (0: upstream was not asked, or gave no answer),
\* the JSON kind of its body, and whether the request's cache_set replaced
\* an entry that had not expired (which only a concurrent miss can do).
Response(ep, url, upstream, kind, raced, status, detail, fromCache, payload) ==
    [ep |-> ep, url |-> url, upstream |-> upstream, kind |-> kind, raced |-> raced,
     status |-> status, detail |-> detail, fromCache |-> fromCache,
     count |-> payload.count, items |-> payload.items]

NoPayload == [count |-> 0, items |-> <<>>]
NoResponse == Response("", "", 0, "", FALSE, 0, "", FALSE, NoPayload)

\* JSONResponse({"fromCache": ..., **payload})
JsonResponse(ep, url, upstream, kind, raced, fromCache, payload) ==
    Response(ep, url, upstream, kind, raced, HTTP_OK, "", fromCache, payload)

\* raise HTTPException(status_code=502, detail=...)
UpstreamError(ep, url, code) ==
    Response(ep, url, code, "", FALSE, BAD_GATEWAY, ErrorDetail(code), FALSE, NoPayload)

\* an exception no handler catches: the framework answers 500
Unhandled(ep, url, upstream, kind) ==
    Response(ep, url, upstream, kind, FALSE, 500, "Internal Server Error",
             FALSE, NoPayload)

LivePayload(body) == [count |-> PyLen(body), items |-> normalize_live(body)]
ProPayload(body) == [count |-> PyLen(body), items |-> normalize_pro(body)]

\* History of the last cache_set under k: the body it normalized, when,
\* and the ttl it passed.
SetRecord(body, ttl) == [body |-> body, t0 |-> now, ttl |-> ttl]

Remember(k, rec) ==
    [x \in DOMAIN lastSet \cup {k} |-> IF x = k THEN rec ELSE lastSet[x]]

Unexpired(k) == k \in DOMAIN cache /\ cache[k].exp >= now

\* Lines up to the await: cache lookup, reply from the cache on a hit.
Begin(ep, url) ==
    /\ BagCardinality(reqs) < NumReqs
    /\ LET cached == cache_get(url)
       IN  IF IsHit(cached)
           THEN /\ lastResp' = JsonResponse(ep, url, 0, "", FALSE, TRUE, cached)
                /\ UNCHANGED reqs
           ELSE /\ reqs' = reqs (+) SetToBag({Awaiting(ep, url)})
                /\ lastResp' = NoResponse
    /\ UNCHANGED <<now, cache, lastSet>>

\* Lines after the await, given upstream's status and parsed body.
Finish(ep, url, code, body, payload, ttl) ==
    /\ BagIn(Awaiting(ep, url), reqs)
    /\ reqs' = reqs (-) SetToBag({Awaiting(ep, url)})
    /\ IF code /= HTTP_OK
       THEN /\ lastResp' = UpstreamError(ep, url, code)
            /\ UNCHANGED <<cache, lastSet>>
       ELSE IF ~HasLen(body)
       THEN /\ lastResp' = Unhandled(ep, url, code, body.kind)
            /\ UNCHANGED <<cache, lastSet>>
       ELSE /\ cache' = cache_set(url, payload, ttl)
            /\ lastSet' = Remember(url, SetRecord(body, ttl))
            /\ lastResp' = JsonResponse(ep, url, code, body.kind, Unexpired(url),
                                        FALSE, payload)
    /\ UNCHANGED now

dota_live_begin(q) ==
    /\ Begin("live", LiveUrl(q))
    /\ UNCHANGED <<normVars, keyVars>>

dota_live_finish(q, code, body) ==
    /\ Finish("live", LiveUrl(q), code, body, LivePayload(body), CACHE_SECONDS)
    /\ UNCHANGED <<normVars, keyVars>>

dota_recent_begin ==
    /\ Begin("recent", OPENDOTA_PRO)
    /\ UNCHANGED <<normVars, keyVars>>

dota_recent_finish(code, body) ==
    /\ Finish("recent", OPENDOTA_PRO, code, body, ProPayload(body), PRO_SECONDS)
    /\ UNCHANGED <<normVars, keyVars>>

\* client.get raises (timeout, connection failure): nothing catches it.
TransportError(x) ==
    /\ BagIn(x, reqs)
    /\ reqs' = reqs (-) SetToBag({x})
    /\ lastResp' = Unhandled(x.ep, x.url, 0, "")
    /\ UNCHANGED <<now, cache, lastSet, normVars, keyVars>>

Tick ==
    /\ now + TickStep <= MaxTime
    /\ now' = now + TickStep
    /\ lastResp' = NoResponse
    /\ UNCHANGED <<cache, reqs, lastSet, normVars, keyVars>>

----------------------------------------------------------------------------
(* Inputs *)

Row(id, radiant, dire, gameTime, name) ==
    [EmptyRow EXCEPT !["match_id"] = id,
                     !["radiant_score"] = radiant,
                     !["dire_score"] = dire,
                     !["game_time"] = gameTime,
                     !["team_name_radiant"] = name,
                     !["radiant_name"] = name]

\* n records, told apart by match_id
LongRows(n) ==
    [i \in 1..n |-> Row(JInt(i), JInt(i % 3), JInt(i % 2), Absent, Absent)]

\* The test record of the specification.
SampleRow == Row(JInt(1), JInt(3), JInt(5), JInt(125), Absent)

\* Inbound queries of the server specification
ServerQueries == {<<(<<(<<"i", "d">>), (<<"7">>)>>)>>}

\* What upstream may answer
Statuses == {200, 404, 503}
NonArrays == {JObject(1), JString(1), JNumber, JBool, JNullBody}
LiveBodies == {JArray(<<>>), JArray(<<SampleRow>>)} \cup NonArrays
ProBodies == {JArray(<<>>), JArray(LongRows(PRO_LIMIT + 1))} \cup NonArrays

NoNorm == rows = JNullBody /\ fn = "off" /\ items = <<>>
NoKey == query = <<>> /\ built = <<>>

Init ==
    /\ now = 0
    /\ cache = <<>>
    /\ reqs = EmptyBag
    /\ lastResp = NoResponse
    /\ lastSet = <<>>
    /\ NoNorm
    /\ NoKey

Next ==
    \/ \E q \in ServerQueries : dota_live_begin(q)
    \/ \E q \in ServerQueries, c \in Statuses, b \in LiveBodies : dota_live_finish(q, c, b)
    \/ dota_recent_begin
    \/ \E c \in Statuses, b \in ProBodies : dota_recent_finish(c, b)
    \/ \E x \in BagToSet(reqs) : TransportError(x)
    \/ Tick

Spec == Init /\ [][Next]_vars

----------------------------------------------------------------------------
(* SpecNorm: the normalizers as pure functions of a bounded input.         *)

GameTimes == {Absent, JNull, JInt(-5), JInt(0), JInt(59), JInt(60), JInt(125)}
RadiantScores == {Absent, JNull, JInt(0), JInt(3)}
DireScores == {Absent, JNull, JInt(5)}
TeamNames == {Absent, JNull, JStr(""), JStr("OG")}

SingleRows ==
    {Row(JInt(1), r, d, g, t) :
        r \in RadiantScores, d \in DireScores, g \in GameTimes, t \in TeamNames}

PairRows == {Row(JInt(i), Absent, JNull, g, Absent) : i \in {1, 2}, g \in {JInt(-5), JInt(125)}}

NormInputs ==
    {JArray(<<m>>) : m \in SingleRows}
        \cup {JArray(<<a, b>>) : a \in PairRows, b \in PairRows}
        \cup {JArray(LongRows(n)) : n \in 0..MaxRows}
        \cup NonArrays

NoServer ==
    /\ now = 0
    /\ cache = <<>>
    /\ reqs = EmptyBag
    /\ lastResp = NoResponse
    /\ lastSet = <<>>

InitNorm ==
    /\ rows \in NormInputs
    /\ fn = "none"
    /\ items = <<>>
    /\ NoServer
    /\ NoKey

NormalizeLive ==
    /\ fn = "none"
    /\ fn' = "live"
    /\ items' = normalize_live(rows)
    /\ UNCHANGED <<rows, serverVars, keyVars>>

NormalizePro ==
    /\ fn = "none"
    /\ fn' = "pro"
    /\ items' = normalize_pro(rows)
    /\ UNCHANGED <<rows, serverVars, keyVars>>

NextNorm == NormalizeLive \/ NormalizePro

SpecNorm == InitNorm /\ [][NextNorm]_vars

----------------------------------------------------------------------------
(* SpecKey: the URL dota_live builds from an inbound query.                *)

MaxParams == 2      \* parameters in an inbound query

ParamNames == {<<"a">>, <<"b">>}
ParamValues == {<<"1">>, <<"2">>, <<"1", "&", "a", "=", "2">>, <<"x", " ", "y">>}
Params == {<<n, v>> : n \in ParamNames, v \in ParamValues}
Queries == UNION {[1..k -> Params] : k \in 0..MaxParams}

InitKey ==
    /\ query \in Queries \X Queries
    /\ built = <<>>
    /\ NoServer
    /\ NoNorm

BuildUrls ==
    /\ built = <<>>
    /\ built' = <<LiveUrl(query[1]), LiveUrl(query[2])>>
    /\ UNCHANGED <<query, serverVars, normVars>>

NextKey == BuildUrls

SpecKey == InitKey /\ [][NextKey]_vars

----------------------------------------------------------------------------
(* Properties *)

\* The payload that the last cache_set under k stored: the normalized form
\* of the upstream body that request received.
StoredPayload(k) ==
    IF k = OPENDOTA_PRO THEN ProPayload(lastSet[k].body)
    ELSE LivePayload(lastSet[k].body)

\* C1: after cache_set(k, v, T) at time t0 with no later write to k,
\* cache_get(k) at time t gives v when t - t0 < T and None when t - t0 >= T,
\* the instant t - t0 = T included.
C1_ReadableUntilTtl ==
    \A k \in DOMAIN lastSet :
        cache_get(k) =
            IF now - lastSet[k].t0 < lastSet[k].ttl THEN StoredPayload(k) ELSE None

\* C2: when upstream answers a status c other than 200, the request ends
\* with a 502 whose detail carries c (here: is the fixed text followed by
\* c), and the step leaves the cache as it was, stale entries included.
C2_UpstreamFailure ==
    [][lastResp'.upstream \notin {0, 200} =>
          /\ lastResp'.status = 502
          /\ lastResp'.detail
                 = "OpenDota upstream error " \o ToString(lastResp'.upstream)
          /\ cache' = cache]_vars

C2_Witness ==
    /\ lastResp.status = 502
    /\ lastResp.upstream = 503
    /\ lastResp.url \in DOMAIN cache
    /\ cache[lastResp.url].exp < now

\* C3: whatever the interleaving of requests missing on one key, what a
\* request can read under a key is nothing or the complete payload
\* {count, items} normalized from one upstream response, and the stored entry
\* is the one of the request whose cache_set ran last (so it is once all
\* requests have finished).
C3_LastWriteWhole ==
    /\ \A k \in DOMAIN cache :
          /\ k \in DOMAIN lastSet
          /\ DOMAIN cache[k].data = {"count", "items"}
          /\ cache[k].data = StoredPayload(k)
    /\ \A k \in {x.url : x \in BagToSet(reqs)} \cup DOMAIN cache :
          cache_get(k) = None \/ cache_get(k) = StoredPayload(k)

\* Two requests missed on the same key, both have written, none is left.
C3_Witness ==
    /\ lastResp.raced
    /\ reqs = EmptyBag
    /\ cache[lastResp.url].data.count = lastResp.count

ClaimTtl(k) == IF k = OPENDOTA_PRO THEN 30 ELSE 10

\* C4: while less than ttl (10 s live, 30 s recent) has passed since the
\* last store under a key, a request for that key is not sent upstream, and
\* it is answered from the cache, unchanged by the step, with fromCache=true
\* and the count and items that the storing request returned.
C4_HitWithinTtl ==
    [][\A k \in DOMAIN lastSet :
          now < lastSet[k].t0 + ClaimTtl(k) =>
              /\ \A x \in BagToSet(reqs') :
                    x.url = k => CopiesIn(x, reqs') <= CopiesIn(x, reqs)
              /\ (/\ lastResp' /= NoResponse
                  /\ lastResp'.url = k
                  /\ BagCardinality(reqs') = BagCardinality(reqs))
                     => /\ lastResp'.status = 200
                        /\ lastResp'.fromCache
                        /\ lastResp'.count = StoredPayload(k).count
                        /\ lastResp'.items = StoredPayload(k).items
                        /\ cache' = cache]_vars

\* The recent endpoint answers from the cache 20 s after an empty payload
\* was stored.
C4_Witness ==
    /\ lastResp.fromCache
    /\ lastResp.ep = "recent"
    /\ lastResp.count = 0
    /\ lastResp.items = <<>>
    /\ now - lastSet[lastResp.url].t0 = 20

\* C5: in every 200 response, fresh or cached, count is the number of items;
\* on the recent endpoint count is at most 20.
C5_CountIsLength ==
    lastResp.status = 200 =>
        /\ lastResp.count = Len(lastResp.items)
        /\ lastResp.ep = "recent" => lastResp.count <= 20

\* C6: a 200 from upstream whose body is not an array still gives a 200
\* response, with no items and a count of zero.
C6_NonArrayDegrades ==
    (lastResp.upstream = 200
        /\ lastResp.kind \in {"object", "number", "string", "bool", "null"})
        => /\ lastResp.status = 200
           /\ lastResp.items = <<>>
           /\ lastResp.count = 0

\* C7: normalize_pro of n records gives min(n, 20) items, the i-th built
\* from the i-th record (kept under raw), each with status "Finished".
C7_ProFirstTwenty ==
    (fn = "pro" /\ IsList(rows)) =>
        /\ Len(items) = IF Len(rows.rows) < 20 THEN Len(rows.rows) ELSE 20
        /\ \A i \in 1..Len(items) :
              /\ items[i].raw = rows.rows[i]
              /\ items[i].id = Get(rows.rows[i], "match_id", JNull)
              /\ items[i].status = "Finished"

C7_Witness ==
    /\ fn = "pro"
    /\ IsList(rows)
    /\ Len(rows.rows) = 25
    /\ Len(items) = 20
    /\ items[20].raw = rows.rows[20]

\* The status the specification describes, with its separator U+2022.
ClaimedStatus(m) ==
    IF m["game_time"].t = "int" /\ m["game_time"].n /= 0
    THEN "Live <U+2022> "
             \o ToString((IF m["game_time"].n > 0 THEN m["game_time"].n ELSE 0) \div 60)
             \o "m"
    ELSE "Live"

\* C8: normalize_live gives status "Live <bullet> {floor(max(game_time,0)/60)}m"
\* for a non-zero, non-null game_time, and "Live" when game_time is missing,
\* null or 0.
C8_LiveStatus ==
    (fn = "live" /\ IsList(rows)) =>
        \A i \in 1..Len(items) : items[i].status = ClaimedStatus(rows.rows[i])

\* 0 for a score the record does not hold as an integer.
ClaimedScorePart(v) == IF v.t = "int" THEN ToString(v.n) ELSE "0"

\* C10: score is "{int} - {int}" of radiant_score and dire_score, with 0 for
\* a score that is missing or null.
C10_ScoreOfInts ==
    (fn \in {"live", "pro"} /\ IsList(rows)) =>
        \A i \in 1..Len(items) :
            items[i].score
                = ClaimedScorePart(rows.rows[i]["radiant_score"]) \o " - "
                      \o ClaimedScorePart(rows.rows[i]["dire_score"])

\* The URL holding every inbound parameter, in the order received.
ClaimedUrl(q) == OPENDOTA_LIVE \o (IF q = <<>> THEN "" ELSE "?" \o UrlEncode(q))

\* C9: the URL (and cache key) holds every inbound parameter, repeated names
\* included, in the order received; so queries that differ never share a key.
C9_EveryParameterKept ==
    built /= <<>> =>
        /\ built[1] = ClaimedUrl(query[1])
        /\ built[2] = ClaimedUrl(query[2])
        /\ query[1] /= query[2] => built[1] /= built[2]

====
